---- MODULE Spec2Model ----
(***************************************************************************)
(* A model of src/app.py, the weather-data aggregation backend.            *)
(*                                                                         *)
(* One request is one sequential run of a handler (spec section 5), so a   *)
(* behaviour is: a request `req` drawn by Init, then the steps of the      *)
(* handler that serves it, ending with pc = "done" and the result in ret.  *)
(*                                                                         *)
(* Numbers.  Python floats are modelled as decimal fixed point: every      *)
(* physical quantity (degrees, mm, m/s, km/h, kPa, UV index, percent of    *)
(* humidity) is an integer count of TENTHS, so 0.2 mm is 2 and the         *)
(* sentinel -999 is -9990.  Pressure in inHg is kept in HUNDREDTHS, as the *)
(* code rounds it to two decimals.  Probability of precipitation and the   *)
(* request's hour counts are plain integers.  Python's None is the         *)
(* integer None, outside every modelled range.                             *)
(*                                                                         *)
(* Strings that the code only compares (time stamps, the event window)     *)
(* are sequences of character codes, compared lexicographically as         *)
(* Python compares str.  Time keys YYYYMMDD / YYYYMMDDHH are the integers  *)
(* their digits spell.                                                     *)
(***************************************************************************)
EXTENDS Integers, Sequences, FiniteSets, TLC

VARIABLES req, pc, ret, i, acc

vars == <<req, pc, ret, i, acc>>

(***************************************************************************)
(* Bounds of the model.                                                    *)
(***************************************************************************)
MaxDays == 2
MaxLocations == 3

(***************************************************************************)
(* Python values.                                                          *)
(***************************************************************************)
None == -100000000

Max(a, b) == IF a >= b THEN a ELSE b
Min(a, b) == IF a <= b THEN a ELSE b

\* Python's max() over a non-empty set of numbers.
MaxOf(S) == CHOOSE m \in S : \A n \in S : n <= m

\* Python's round(): n/d (d > 0) to the nearest integer, ties to even.
round(n, d) ==
    LET q == n \div d
        r == n % d
    IN  IF 2 * r < d THEN q
        ELSE IF 2 * r > d THEN q + 1
        ELSE IF q % 2 = 0 THEN q ELSE q + 1

RECURSIVE SumSeq(_)
SumSeq(s) == IF s = <<>> THEN 0 ELSE Head(s) + SumSeq(Tail(s))

\* s[start:] for a Python list s, start any integer (negative counts from the end).
SliceFrom(s, start) ==
    LET n == Len(s)
        a == IF start < 0 THEN Max(n + start, 0) ELSE Min(start, n)
    IN  SubSeq(s, a + 1, n)

\* Python's str comparison a <= b, on sequences of character codes.
RECURSIVE StrLeq(_, _)
StrLeq(a, b) ==
    IF a = <<>> THEN TRUE
    ELSE IF b = <<>> THEN FALSE
    ELSE IF Head(a) < Head(b) THEN TRUE
    ELSE IF Head(a) > Head(b) THEN FALSE
    ELSE StrLeq(Tail(a), Tail(b))

\* str.lower() on the strings of the model.
lower(str) ==
    CASE str = "Wedding" -> "wedding"
      [] str = "Hiking Trip" -> "hiking trip"
      [] str = "General" -> "general"
      [] str = "Celsius" -> "celsius"
      [] str = "FAHRENHEIT" -> "fahrenheit"
      [] OTHER -> str

(***************************************************************************)
(* Missing values (app.py 12-17).                                          *)
(***************************************************************************)
MISSING == {-9990, -99990, -990, None}

mv_NoNull(v, default) == IF v \in {-9990, -99990, -990} THEN default ELSE v

mv(v, default) == IF v \in MISSING THEN default ELSE v

(***************************************************************************)
(* Unit conversion at the response boundary (app.py 45-80).                *)
(***************************************************************************)
convert_temp_Inverted(temp_f, to_celsius) ==
    IF temp_f = None THEN None
    ELSE IF ~to_celsius THEN round((temp_f - 320) * 5, 9)
    ELSE round(temp_f, 1)

\* temp_f in tenths of a degree; the result is in tenths (one decimal).
convert_temp(temp_f, to_celsius) ==
    IF temp_f = None THEN None
    ELSE IF to_celsius THEN round((temp_f - 320) * 5, 9)
    ELSE round(temp_f, 1)

\* Lines 60-62, 67-69, 74-76: the keys of one object converted in place.
\* A key the object lacks is None here; both are passed over.
ConvertKeys(obj, keys, is_celsius) ==
    [k \in DOMAIN obj |-> IF k \in keys THEN convert_temp(obj[k], is_celsius) ELSE obj[k]]

ConvertAll(objs, keys, is_celsius) ==
    [n \in 1..Len(objs) |-> ConvertKeys(objs[n], keys, is_celsius)]

is_celsius(unit) == lower(unit) = "celsius"

\* data is [has_current, current, has_hourly, hourly, has_forecast,
\* forecast, unit]; a has_ flag says whether the key is in the dict.
format_weather_response(data, unit) ==
    [has_current |-> data.has_current,
     current |-> IF data.has_current
                 THEN ConvertKeys(data.current,
                                  {"temp", "feelsLike", "dewPoint", "high", "low"},
                                  is_celsius(unit))
                 ELSE data.current,
     has_hourly |-> data.has_hourly,
     hourly |-> IF data.has_hourly
                THEN ConvertAll(data.hourly, {"temp", "feelsLike", "dewPoint"},
                                is_celsius(unit))
                ELSE data.hourly,
     has_forecast |-> data.has_forecast,
     forecast |-> IF data.has_forecast
                  THEN ConvertAll(data.forecast, {"high", "low"}, is_celsius(unit))
                  ELSE data.forecast,
     unit |-> IF is_celsius(unit) THEN "C" ELSE "F"]

(***************************************************************************)
(* NASA POWER hourly helpers (app.py 82-99).                               *)
(*                                                                         *)
(* A JSON value is [isList, vals]: a scalar v is Scalar(v), a list is      *)
(* List(s).  A dict that the code iterates (series_dict) is the sequence   *)
(* of its items in insertion order, each [key, isList, vals], keys         *)
(* distinct; a dict that is only looked up is a function from its keys.    *)
(***************************************************************************)
Scalar(v) == [isList |-> FALSE, vals |-> <<v>>]
List(s) == [isList |-> TRUE, vals |-> s]
Item(k, x) == [key |-> k, isList |-> x.isList, vals |-> x.vals]
Value(item) == [isList |-> item.isList, vals |-> item.vals]

EmptyDict == [k \in {} |-> Scalar(None)]
Items(series_dict) == {series_dict[n] : n \in 1..Len(series_dict)}
AsDict(series_dict) ==
    [k \in {e.key : e \in Items(series_dict)} |->
        Value(CHOOSE e \in Items(series_dict) : e.key = k)]

\* f"{day_key}{i:02d}" for a day key of digits and 0 <= i < 100.
FlatKey(day_key, idx) == day_key * 100 + idx

\* The keys and values written by the loop of lines 93-96, enumerate()
\* counting from `first`.
ExpandedFrom(series_dict, first) ==
    LET lists == {e \in Items(series_dict) : e.isList}
        keys == UNION {{FlatKey(e.key, h - 1 + first) : h \in 1..Len(e.vals)} : e \in lists}
    IN  [k \in keys |->
            LET e == CHOOSE e \in lists :
                        /\ e.key = k \div 100
                        /\ (k % 100) - first + 1 \in 1..Len(e.vals)
            IN  Scalar(e.vals[(k % 100) - first + 1])]

flatten_hourly_series_OneBased(series_dict) ==
    IF series_dict = <<>> THEN EmptyDict
    ELSE LET sample == series_dict[1]
         IN  IF sample.isList THEN ExpandedFrom(series_dict, 1)
             ELSE AsDict(series_dict)

flatten_hourly_series(series_dict) ==
    IF series_dict = <<>> THEN EmptyDict
    ELSE LET sample == series_dict[1]
         IN  IF sample.isList THEN ExpandedFrom(series_dict, 0)
             ELSE AsDict(series_dict)

(***************************************************************************)
(* The condition classifier (app.py 185-197).  Icons are named, not drawn. *)
(***************************************************************************)
get_weather_condition_Strict(temp_c, humidity, precip_amount, is_hourly) ==
    IF is_hourly /\ precip_amount > 20 THEN <<"Rainy", "cloud_with_rain">>
    ELSE IF is_hourly /\ precip_amount > 2 THEN <<"Light Rain", "sun_behind_rain_cloud">>
    ELSE IF ~is_hourly /\ precip_amount > 100 THEN <<"Rainy", "cloud_with_rain">>
    ELSE IF ~is_hourly /\ precip_amount > 10 THEN <<"Light Rain", "sun_behind_rain_cloud">>
    ELSE IF humidity > 800 THEN <<"Cloudy", "cloud">>
    ELSE IF humidity > 600 THEN <<"Partly Cloudy", "sun_behind_cloud">>
    ELSE <<"Clear", "sun">>

get_weather_condition(temp_c, humidity, precip_amount, is_hourly) ==
    IF is_hourly /\ precip_amount >= 20 THEN <<"Rainy", "cloud_with_rain">>
    ELSE IF is_hourly /\ precip_amount >= 2 THEN <<"Light Rain", "sun_behind_rain_cloud">>
    ELSE IF ~is_hourly /\ precip_amount >= 100 THEN <<"Rainy", "cloud_with_rain">>
    ELSE IF ~is_hourly /\ precip_amount >= 10 THEN <<"Light Rain", "sun_behind_rain_cloud">>
    ELSE IF humidity > 800 THEN <<"Cloudy", "cloud">>
    ELSE IF humidity > 600 THEN <<"Partly Cloudy", "sun_behind_cloud">>
    ELSE <<"Clear", "sun">>

(***************************************************************************)
(* The hourly trend from NASA POWER (app.py 101-183).                      *)
(*                                                                         *)
(* The provider's answer `hresp` is [fail, has_parameter, parameter]: fail *)
(* as for the forecast, has_parameter whether the JSON object holds        *)
(* properties.parameter, parameter a function from the parameter names    *)
(* the object holds to their series.                                       *)
(*                                                                         *)
(* Units of a row: temp, feelsLike, dewPoint in tenths of a degree (whole  *)
(* Fahrenheit degrees times 10), precipitation and humidity in tenths,     *)
(* wind in whole mph, pressure in hundredths of inHg, uvIndex in tenths.   *)
(***************************************************************************)
\* p.get(k, {}), line 129.
ParamSeries(parameter, k) == IF k \in DOMAIN parameter THEN parameter[k] ELSE <<>>

\* series[k].get(key): the value, or None.
Get(series, key) == IF key \in DOMAIN series THEN series[key] ELSE Scalar(None)

\* a <= b as strings, for keys of 8 or 10 digits: a day key sorts as its
\* digits followed by nothing, before <day>00.
KeyLeq(a, b) ==
    LET pad(k) == IF k < 100000000 THEN k * 100 ELSE k
    IN  pad(a) < pad(b) \/ (pad(a) = pad(b) /\ a <= b)

\* sorted(): ascending by string.
RECURSIVE SortKeys(_)
SortKeys(S) ==
    IF S = {} THEN <<>>
    ELSE LET k == CHOOSE k \in S : \A j \in S : KeyLeq(k, j)
         IN  <<k>> \o SortKeys(S \ {k})

TwoDigits(n) == IF n < 10 THEN "0" \o ToString(n) ELSE ToString(n)

\* Lines 141-145: '%I %p' without its leading zero for a YYYYMMDDHH key,
\* the key's last two characters when strptime rejects it (a day key).
TimeLabel(key) ==
    IF key < 100000000 THEN TwoDigits(key % 100)
    ELSE LET h == key % 100
             h12 == IF h % 12 = 0 THEN 12 ELSE h % 12
         IN  ToString(h12) \o (IF h < 12 THEN " AM" ELSE " PM")

to_display_f_NoOffset(c) == 10 * round(c * 9, 50)

\* Celsius (tenths) to whole Fahrenheit degrees, in tenths: lines 157-158.
to_display_f(c) == 10 * round(c * 9 + 1600, 50)

\* kPa (tenths) to inHg (hundredths), None when missing: line 160.
to_inhg(ps_kpa) ==
    IF ps_kpa \notin MISSING THEN round(mv(ps_kpa, 0) * 2953, 1000) ELSE None

HourlyParams == {"T2M", "RH2M", "WS2M", "PS", "PRECTOTCORR", "ALLSKY_SFC_UV_INDEX", "T2MDEW"}

\* Lines 136-177 for one key whose temperature is not missing.
HourRow(series, key) ==
    LET val(k) == Get(series[k], key).vals[1]
        temp_c == mv(val("T2M"), 200)
        rh == Max(0, Min(1000, mv(val("RH2M"), 600)))
        ws_ms == Max(0, mv(val("WS2M"), 0))
        precip_mmhr == Max(0, mv(val("PRECTOTCORR"), 0))
        uvi == Max(0, mv(val("ALLSKY_SFC_UV_INDEX"), 0))
        dew_c == mv(val("T2MDEW"), temp_c - 20)
        cond == get_weather_condition(temp_c, rh, precip_mmhr, TRUE)
    IN  [time |-> TimeLabel(key),
         temp |-> to_display_f(temp_c),
         icon |-> cond[2],
         precipitation |-> round(precip_mmhr, 1),
         humidity |-> rh,
         wind |-> round(ws_ms * 2237, 10000),
         feelsLike |-> to_display_f(temp_c),
         description |-> cond[1],
         pressure |-> to_inhg(val("PS")),
         uvIndex |-> 10 * round(uvi, 10),
         dewPoint |-> to_display_f(dew_c)]

\* Line 137: the hour is skipped.
Skipped_SentinelsOnly(t2m) == t2m \in {-9990, -99990, -990}

Skipped(t2m) == t2m \in MISSING

\* Lines 180-182.
LastHours_KeepLabel(rows, hours) == SliceFrom(rows, -hours)

LastHours(rows, hours) ==
    LET kept == SliceFrom(rows, -hours)
    IN  IF kept # <<>> THEN [kept EXCEPT ![Len(kept)].time = "Now"] ELSE kept

\* [raised, rows].  A value that is itself a list makes `in MISSING`
\* raise TypeError (137, 148-160); so do a failed call and a bad body.
get_power_hourly(hresp, hours) ==
    LET flat(k) == flatten_hourly_series(ParamSeries(hresp.parameter, k))
        rows_of(series, all_keys) ==
            LET t2m(key) == Get(series["T2M"], key)
                kept == SelectSeq(all_keys, LAMBDA key : ~Skipped(t2m(key).vals[1]))
                bad == \E n \in 1..Len(all_keys) :
                          \/ t2m(all_keys[n]).isList
                          \/ /\ ~Skipped(t2m(all_keys[n]).vals[1])
                             /\ \E k \in HourlyParams : Get(series[k], all_keys[n]).isList
            IN  IF bad THEN [raised |-> TRUE, rows |-> <<>>]
                ELSE [raised |-> FALSE,
                      rows |-> LastHours([n \in 1..Len(kept) |-> HourRow(series, kept[n])],
                                         hours)]
        sorted_keys(series) == SortKeys(DOMAIN series["T2M"] \cup DOMAIN series["PRECTOTCORR"])
        with_keys(series) == rows_of(series, sorted_keys(series))
    IN  IF hresp.fail # "none" THEN [raised |-> TRUE, rows |-> <<>>]
        ELSE IF ~hresp.has_parameter THEN [raised |-> FALSE, rows |-> <<>>]
        ELSE with_keys([T2M |-> flat("T2M"), RH2M |-> flat("RH2M"), WS2M |-> flat("WS2M"),
                        PS |-> flat("PS"), PRECTOTCORR |-> flat("PRECTOTCORR"),
                        ALLSKY_SFC_UV_INDEX |-> flat("ALLSKY_SFC_UV_INDEX"),
                        T2MDEW |-> flat("T2MDEW")])

(***************************************************************************)
(* Geocoding (app.py 19-43).  A location is [name, geo]: geo is "latlon"   *)
(* when the text is a 'lat,lon' pair, "found" when the geocoder returns a  *)
(* result, "empty" when it returns none, "error" when the lookup raises.   *)
(* The result is [resolved, display]: resolved is lat and lon not None.    *)
(***************************************************************************)
get_coordinates(location) ==
    CASE location.geo = "latlon" ->
            [resolved |-> TRUE, display |-> [text |-> location.name, form |-> "coords"]]
      [] location.geo = "found" ->
            [resolved |-> TRUE, display |-> [text |-> location.name, form |-> "display_name"]]
      [] OTHER ->
            [resolved |-> FALSE, display |-> [text |-> location.name, form |-> "input"]]

(***************************************************************************)
(* Current conditions (app.py 199-279).  The daily answer `dresp` is       *)
(* [fail, has_parameter, parameter], parameter a function from the         *)
(* parameter names to functions from day keys to readings.                 *)
(***************************************************************************)
\* Lines 225-230.
latest(parameter, param, default) ==
    LET values == IF param \in DOMAIN parameter THEN parameter[param]
                  ELSE [k \in {} |-> None]
        valid == {k \in DOMAIN values : values[k] \notin MISSING}
    IN  IF valid = {} THEN default ELSE values[MaxOf(valid)]

LastHourOr_FirstRow(hourly, field, daily) ==
    IF hourly # <<>> THEN hourly[1][field] ELSE daily

\* Lines 244-247: hourly[-1] when there is an hourly row, else the daily
\* figure.
LastHourOr(hourly, field, daily) ==
    IF hourly # <<>> THEN hourly[Len(hourly)][field] ELSE daily

\* [ok, current, hourly]: ok is FALSE for (None, None, name).
get_real_weather_data_by_point(dresp, hresp) ==
    LET failed == [ok |-> FALSE, current |-> [temp |-> None], hourly |-> <<>>]
        answer(p, temp_c, h) ==
            LET rh == Max(0, Min(1000, mv(latest(p, "RH2M", None), 600)))
                precip_24h_mm == Max(0, mv(latest(p, "PRECTOTCORR", None), 0))
                tmax_c == mv(latest(p, "T2M_MAX", None), temp_c)
                tmin_c == mv(latest(p, "T2M_MIN", None), temp_c)
                dew_c == mv(latest(p, "T2MDEW", None), temp_c - 20)
                ws_ms == Max(0, mv(latest(p, "WS2M", None), 0))
                ps_kpa == latest(p, "PS", None)
                last_hour_precip == LastHourOr(h.rows, "precipitation", 0)
                last_hour_uvi ==
                    LastHourOr(h.rows, "uvIndex",
                               Max(0, mv(latest(p, "ALLSKY_SFC_UV_INDEX", None), 0)))
                last_hour_pressure == LastHourOr(h.rows, "pressure", to_inhg(ps_kpa))
                last_hour_dew_f == LastHourOr(h.rows, "dewPoint", to_display_f(dew_c))
                label == get_weather_condition(temp_c, rh, last_hour_precip, TRUE)[1]
                icon == get_weather_condition(temp_c, rh, last_hour_precip, TRUE)[2]
            IN  IF h.raised THEN failed
                ELSE [ok |-> TRUE,
                      current |-> [temp |-> to_display_f(temp_c),
                                   condition |-> label,
                                   description |-> label,
                                   precipitation |-> round(last_hour_precip, 1),
                                   precipLast24h |-> round(precip_24h_mm, 1),
                                   humidity |-> rh,
                                   wind |-> round(ws_ms * 2237, 10000),
                                   pressure |-> last_hour_pressure,
                                   visibility |-> 10,
                                   uvIndex |-> last_hour_uvi,
                                   dewPoint |-> last_hour_dew_f,
                                   feelsLike |-> to_display_f(temp_c),
                                   icon |-> icon,
                                   high |-> to_display_f(tmax_c),
                                   low |-> to_display_f(tmin_c)],
                      hourly |-> h.rows]
    IN  IF dresp.fail # "none" \/ ~dresp.has_parameter THEN failed
        ELSE answer(dresp.parameter, mv(latest(dresp.parameter, "T2M", None), 200),
                    get_power_hourly(hresp, 24))

(***************************************************************************)
(* The daily trend and the historical series (app.py 282-327, 551-612).    *)
(***************************************************************************)
\* p.get(k, {}).get(dk): the day's reading, None when either key is absent.
DayValue(parameter, k, dk) ==
    IF k \in DOMAIN parameter /\ dk \in DOMAIN parameter[k] THEN parameter[k][dk] ELSE None

\* sorted(p.get(k, {}).keys()).
SortedDays(parameter, k) ==
    IF k \in DOMAIN parameter THEN SortKeys(DOMAIN parameter[k]) ELSE <<>>

\* Lines 306-322 for one day key.
TrendRow(p, dk) ==
    LET tmax_c == mv(DayValue(p, "T2M_MAX", dk), 200)
        tmin_c == mv(DayValue(p, "T2M_MIN", dk), 100)
        rh == Max(0, Min(1000, mv(DayValue(p, "RH2M", dk), 600)))
        precip_mm == Max(0, mv(DayValue(p, "PRECTOTCORR", dk), 0))
        wind_ms == Max(0, mv(DayValue(p, "WS2M", dk), 50))
    IN  [date |-> dk,
         high |-> to_display_f(tmax_c),
         low |-> to_display_f(tmin_c),
         precipitation |-> round(precip_mm, 1),
         condition |-> get_weather_condition(0, rh, precip_mm, FALSE)[1],
         description |-> get_weather_condition(0, rh, precip_mm, FALSE)[1],
         icon |-> get_weather_condition(0, rh, precip_mm, FALSE)[2],
         humidity |-> rh,
         wind |-> round(wind_ms * 2237, 10000)]

\* [ok, rows]: ok is FALSE for None.  p['T2M_MIN'] of line 308 raises
\* KeyError when the answer has T2M_MAX days but no T2M_MIN.
get_real_forecast_trend(dresp, days) ==
    LET failed == [ok |-> FALSE, rows |-> <<>>]
        rows_of(p, dates) ==
            IF dates # <<>> /\ "T2M_MIN" \notin DOMAIN p THEN failed
            ELSE [ok |-> TRUE, rows |-> [n \in 1..Len(dates) |-> TrendRow(p, dates[n])]]
    IN  IF dresp.fail # "none" \/ ~dresp.has_parameter THEN failed
        ELSE rows_of(dresp.parameter,
                     SliceFrom(SortedDays(dresp.parameter, "T2M_MAX"), -days))

\* Lines 584-596 for one day key; avgTemp after lines 597-599.
HistoricalRow(p, dk, is_c) ==
    [date |-> dk,
     avgTemp |-> convert_temp(to_display_f(mv(DayValue(p, "T2M", dk), 200)), is_c),
     precipitation |-> round(Max(0, mv(DayValue(p, "PRECTOTCORR", dk), 0)), 1),
     humidity |-> Max(0, Min(1000, mv(DayValue(p, "RH2M", dk), 600)))]

(***************************************************************************)
(* Event advice from the forecast provider (app.py 329-481).               *)
(*                                                                         *)
(* The provider's answer `resp` is [fail, has_hourly, has_time, time,      *)
(* temperature_2m, precipitation, precipitation_probability,              *)
(* windspeed_10m, uv_index]: fail is "transport" when requests.get raises  *)
(* (connection error, timeout), "parse" when .json() raises, else "none";  *)
(* has_hourly / has_time say whether the JSON object holds the 'hourly'    *)
(* object and its 'time' array.  An array the object lacks is <<>>, which  *)
(* is what .get(key, []) makes of it.  cloudcover is only passed through   *)
(* to the output and is left out.                                          *)
(***************************************************************************)
\* arr[i] if i < len(arr) else default, for the 1-based position k = i + 1.
At(arr, k, default) == IF k <= Len(arr) THEN arr[k] ELSE default

\* Line 355-356: both ends inclusive, str comparison.
in_window_Exclusive(t, start_local_iso, end_local_iso) ==
    StrLeq(start_local_iso, t) /\ StrLeq(t, end_local_iso) /\ t # end_local_iso

in_window(t, start_local_iso, end_local_iso) ==
    StrLeq(start_local_iso, t) /\ StrLeq(t, end_local_iso)

\* km/h (tenths) to mph (tenths): round(w * 0.621371, 1), line 366.
wind_mph(w) == round(w * 621371, 1000000)

\* Lines 345-352: the hourly arrays as .get() returns them.
HourlyOf(resp) ==
    IF resp.has_hourly
    THEN [time |-> IF resp.has_time THEN resp.time ELSE <<>>,
          temperature_2m |-> resp.temperature_2m,
          precipitation |-> resp.precipitation,
          precipitation_probability |-> resp.precipitation_probability,
          windspeed_10m |-> resp.windspeed_10m,
          uv_index |-> resp.uv_index]
    ELSE [time |-> <<>>, temperature_2m |-> <<>>, precipitation |-> <<>>,
          precipitation_probability |-> <<>>, windspeed_10m |-> <<>>,
          uv_index |-> <<>>]

\* Lines 358-370.  A null wind speed makes line 366 raise TypeError; the
\* entry then carries wind_mph = None and WindowRaises reports it.
BuildWindow(hourly, start_local_iso, end_local_iso) ==
    LET idx == [k \in 1..Len(hourly.time) |-> k]
        sel == SelectSeq(idx, LAMBDA k : in_window(hourly.time[k], start_local_iso, end_local_iso))
    IN  [n \in 1..Len(sel) |->
            LET k == sel[n]
                w == At(hourly.windspeed_10m, k, 0)
            IN  [time |-> hourly.time[k],
                 temp_c |-> At(hourly.temperature_2m, k, None),
                 precip_mm |-> At(hourly.precipitation, k, 0),
                 pop |-> At(hourly.precipitation_probability, k, None),
                 wind_mph |-> IF w = None THEN None ELSE wind_mph(w),
                 uv |-> At(hourly.uv_index, k, None)]]

Field(window, f) == {window[n][f] : n \in 1..Len(window)}

\* TypeError inside the try block: None * 0.621371 (line 366), or a null
\* precipitation reaching max() / >= / round() (lines 378, 384-386, 469).
WindowRaises(window) == None \in Field(window, "wind_mph") \cup Field(window, "precip_mm")

\* Lines 383-387.
precip_risk_Strict(max_pop, max_precip) ==
    IF (max_pop # None /\ max_pop > 60) \/ max_precip > 20 THEN "high"
    ELSE IF (max_pop # None /\ 30 < max_pop /\ max_pop < 60)
            \/ (2 < max_precip /\ max_precip < 20)
         THEN "moderate"
    ELSE "low"

precip_risk(max_pop, max_precip) ==
    IF (max_pop # None /\ max_pop >= 60) \/ max_precip >= 20 THEN "high"
    ELSE IF (max_pop # None /\ 30 <= max_pop /\ max_pop < 60)
            \/ (2 <= max_precip /\ max_precip < 20)
         THEN "moderate"
    ELSE "low"

\* Lines 389-391.
wind_risk(max_wind) ==
    IF max_wind >= 300 THEN "high"
    ELSE IF max_wind >= 150 THEN "moderate"
    ELSE "low"

\* Lines 394-399: <<comfort_min_c, comfort_max_c>>.
comfort(event_type) ==
    IF lower(event_type) \in {"wedding", "outdoor gathering", "concert", "festival",
                               "parade", "picnic"}
    THEN <<120, 300>>
    ELSE IF lower(event_type) \in {"sports event", "hiking trip"}
    THEN <<80, 320>>
    ELSE <<100, 300>>

\* Lines 380, 401-406.  The average is total / count of the set readings,
\* None when count = 0; a < b * count is avg < b.
temp_risk(total, count, event_type) ==
    LET comfort_min_c == comfort(event_type)[1]
        comfort_max_c == comfort(event_type)[2]
    IN  IF count = 0 THEN "low"
        ELSE IF total < (comfort_min_c - 20) * count \/ total > (comfort_max_c + 20) * count
             THEN "high"
        ELSE IF total < comfort_min_c * count \/ total > comfort_max_c * count
             THEN "moderate"
        ELSE "low"

\* Lines 409-410.
uv_risk(max_uvi) ==
    IF max_uvi < 60 THEN "low" ELSE IF max_uvi < 80 THEN "moderate" ELSE "high"

\* Line 412.
favorable_IgnoresWind(precip, wind, temperature) ==
    precip = "low" /\ temperature # "high"

favorable(precip, wind, temperature) ==
    precip = "low" /\ wind = "low" /\ temperature # "high"

\* Lines 414-430.
suggestions(risks) ==
    (IF risks.precip = "high"
        THEN <<"High rain risk: arrange shelter/tents",
               "Consider shifting time to a drier hour">>
     ELSE IF risks.precip = "moderate"
        THEN <<"Showers possible: bring umbrellas/ponchos">>
     ELSE <<>>)
    \o (IF risks.wind = "high"
           THEN <<"Strong winds: secure structures, avoid lightweight canopies">>
        ELSE IF risks.wind = "moderate" THEN <<"Breezy: secure signage/balloons">>
        ELSE <<>>)
    \o (IF risks.temperature # "low" THEN <<"Adjust dress code and hydration plan">>
        ELSE <<>>)
    \o (IF risks.uv # "low" THEN <<"Provide sunscreen and shaded areas (UV elevated)">>
        ELSE <<>>)

\* Lines 433-439, on tenths.
to_unit_c(val_c) == IF val_c = None THEN None ELSE round(val_c, 1)
to_unit_f(val_c) == IF val_c = None THEN None ELSE round(val_c * 9 + 1600, 5)

\* round(x, 1) of the average total/count (lines 435, 439, 472): where the
\* exact quotient is a tie the float's binary value decides, either way.
RoundAvg(n, d) ==
    IF 2 * (n % d) = d THEN {n \div d, (n \div d) + 1} ELSE {round(n, d)}

AvgTempOut(total, count, is_c) ==
    IF count = 0 THEN {None}
    ELSE IF is_c THEN RoundAvg(total, count)
    ELSE RoundAvg(total * 9 + 1600 * count, 5 * count)

\* Line 344 raises: requests.get() fails or the body is not JSON.  Keys
\* the JSON object lacks do not raise, .get() defaults them (345-352).
FetchFails_KeysRequired(resp) == resp.fail # "none" \/ ~resp.has_hourly \/ ~resp.has_time

FetchFails(resp) == resp.fail # "none"

NoData == [status |-> 200, error |-> "No forecast data for the selected window"]
AdviceFailed == [status |-> 500, error |-> "Failed to compute event advice"]

\* The set of results get_event_advice can return (one, but for a tie of
\* the displayed average).
get_event_advice(resp, start_local_iso, end_local_iso, unit, event_type) ==
    IF FetchFails(resp) THEN {AdviceFailed}
    ELSE
    LET window == BuildWindow(HourlyOf(resp), start_local_iso, end_local_iso)
    IN  IF window = <<>> THEN {NoData}
        ELSE IF WindowRaises(window) THEN {AdviceFailed}
        ELSE
        LET temps == SelectSeq([n \in 1..Len(window) |-> window[n].temp_c],
                               LAMBDA t : t # None)
            max_wind == MaxOf(Field(window, "wind_mph"))
            max_precip == MaxOf(Field(window, "precip_mm"))
            pops == Field(window, "pop") \ {None}
            max_pop == IF pops = {} THEN None ELSE MaxOf(pops)
            uvs == Field(window, "uv") \ {None}
            max_uvi == IF uvs = {} THEN 0 ELSE MaxOf(uvs)
            risks == [precip |-> precip_risk(max_pop, max_precip),
                      wind |-> wind_risk(max_wind),
                      temperature |-> temp_risk(SumSeq(temps), Len(temps), event_type),
                      uv |-> uv_risk(max_uvi)]
            fav == favorable(risks.precip, risks.wind, risks.temperature)
            is_c == is_celsius(unit)
            window_out ==
                [n \in 1..Len(window) |->
                    [time |-> window[n].time,
                     temp |-> IF is_c THEN to_unit_c(window[n].temp_c)
                              ELSE to_unit_f(window[n].temp_c),
                     precip_mm |-> window[n].precip_mm,
                     pop |-> window[n].pop,
                     wind_mph |-> window[n].wind_mph,
                     uv |-> window[n].uv]]
        IN  {[status |-> 200,
              error |-> "",
              window |-> [start |-> start_local_iso, end |-> end_local_iso],
              favorable |-> fav,
              summary |-> IF fav THEN "Favorable" ELSE "Not favorable",
              risks |-> risks,
              metrics |-> [max_precip_mm |-> max_precip,
                           max_pop_percent |-> max_pop,
                           max_wind_mph |-> max_wind,
                           avg_temp |-> avg,
                           unit |-> IF is_c THEN "C" ELSE "F"],
              hourly |-> window_out,
              suggestions |-> suggestions(risks)] :
             avg \in AvgTempOut(SumSeq(temps), Len(temps), is_c)}

(***************************************************************************)
(* Requests: the inputs of one run, drawn by Init.                         *)
(***************************************************************************)
\* Values an upstream series can hold: sentinels, null, readings at and
\* next to the sentinels, zero, negative and positive readings.
MvValues == {None, -9990, -99990, -990, -9991, -9980, -99980, -1000, -980, -10, 0, 10, 215}
MvDefaults == {None, 0, 200, 600}

MvRequests == [op : {"mv"}, v : MvValues, default : MvDefaults]

ClassifyRequests ==
    [op : {"classify"},
     temp_c : {-50, 200, 350},
     humidity : {0, 600, 601, 800, 801, 1000},
     precip_amount : {0, 1, 2, 10, 19, 20, 99, 100, 150},
     is_hourly : BOOLEAN]

\* Day d of the period, as YYYYMMDD.
DayKey(d) == 20240100 + d

Patterns == {"ramp", "gaps", "nulls", "missing"}

\* The reading of hour h (0-23) of day d under a pattern.
HourValue(pat, d, h) ==
    CASE pat = "ramp" -> 100 + 10 * d + h
      [] pat = "gaps" -> IF h % 2 = 1 THEN -9990 ELSE 100 + 10 * d + h
      [] pat = "nulls" -> IF h % 3 = 2 THEN None ELSE 100 + 10 * d + h
      [] pat = "missing" -> -9990

DayList(pat, d, len) == List([h \in 1..len |-> HourValue(pat, d, h - 1)])

\* Shape (b) of section 4.3: one list of `len` readings per day.
ListSeries(pat, nd, len) == [d \in 1..nd |-> Item(DayKey(d), DayList(pat, d, len))]

\* Shape (a): one scalar per YYYYMMDDHH key.
ScalarSeries(pat, nd, len) ==
    [n \in 1..(nd * len) |->
        LET d == ((n - 1) \div len) + 1
            h == (n - 1) % len
        IN  Item(FlatKey(DayKey(d), h), Scalar(HourValue(pat, d, h)))]

\* A list series whose item at position n is a scalar instead.
MixedSeries(pat, nd, len, n) ==
    [d \in 1..nd |->
        IF d = n THEN Item(DayKey(d), Scalar(HourValue(pat, d, 0)))
        ELSE Item(DayKey(d), DayList(pat, d, len))]

Shapes == {"lists", "scalars", "scalar_first", "scalar_last"}
ListLens == {1, 3, 24}

Series(shape, pat, nd, len) ==
    CASE shape = "lists" -> ListSeries(pat, nd, len)
      [] shape = "scalars" -> ScalarSeries(pat, nd, len)
      [] shape = "scalar_first" -> MixedSeries(pat, nd, len, 1)
      [] shape = "scalar_last" -> MixedSeries(pat, nd, len, nd)

FlattenRequests ==
    {[op |-> "flatten", series_dict |-> Series(sh, pat, nd, len)] :
        sh \in Shapes, pat \in Patterns, nd \in 0..MaxDays, len \in ListLens}

\* The first reading of each hourly parameter's ramp.
ParamBase(k) ==
    CASE k = "T2M" -> 100
      [] k = "RH2M" -> 780
      [] k = "WS2M" -> 20
      [] k = "PS" -> 1000
      [] k = "PRECTOTCORR" -> -10
      [] k = "ALLSKY_SFC_UV_INDEX" -> 40
      [] k = "T2MDEW" -> 50

\* A series of the payload: the pattern's series, shifted to the
\* parameter's range where the reading is set.
ParamItems(k, shape, pat, nd, len) ==
    LET base == Series(shape, pat, nd, len)
        shift(v) == IF v \in MISSING THEN v ELSE v - 100 + ParamBase(k)
    IN  [n \in 1..Len(base) |->
            [base[n] EXCEPT !.vals = [j \in 1..Len(base[n].vals) |-> shift(base[n].vals[j])]]]

\* An hourly answer: T2M under t2m_pat, PRECTOTCORR under prec_pat, the
\* other five under other_pat; "absent" leaves the parameter out.
HourlyParameter(shape, nd, len, t2m_pat, prec_pat, other_pat) ==
    LET pat(k) == IF k = "T2M" THEN t2m_pat
                  ELSE IF k = "PRECTOTCORR" THEN prec_pat ELSE other_pat
    IN  [k \in {j \in HourlyParams : pat(j) # "absent"} |->
            ParamItems(k, shape, pat(k), nd, len)]

\* Short days in every shape and pattern, and full days of 24 readings.
HourlyAnswers ==
    {[fail |-> "none", has_parameter |-> TRUE,
      parameter |-> HourlyParameter(sh, nd, len, tp, pp, op)] :
        sh \in Shapes, nd \in 0..MaxDays, len \in {1, 3},
        tp \in Patterns, pp \in {"ramp", "missing", "absent"},
        op \in {"ramp", "nulls", "absent"}}
    \cup
    {[fail |-> "none", has_parameter |-> TRUE,
      parameter |-> HourlyParameter("lists", nd, 24, tp, "ramp", op)] :
        nd \in 1..MaxDays, tp \in {"ramp", "gaps"}, op \in {"ramp", "absent"}}

BadHourlyAnswers ==
    [fail : {"transport", "parse", "none"}, has_parameter : {FALSE},
     parameter : {HourlyParameter("lists", 1, 3, "ramp", "ramp", "ramp")}]

HoursValues == {-2, 0, 1, 2, 5, 24, 60}

PowerHourlyRequests ==
    [op : {"power_hourly"}, hresp : HourlyAnswers \cup BadHourlyAnswers, hours : HoursValues]

Units == {"fahrenheit", "Celsius"}

DailyParams ==
    {"T2M", "T2M_MAX", "T2M_MIN", "RH2M", "PRECTOTCORR", "WS2M", "PS",
     "ALLSKY_SFC_UV_INDEX", "T2MDEW"}

\* The first reading of each daily parameter's ramp.
DailyBase(k) ==
    CASE k = "T2M" -> 150
      [] k = "T2M_MAX" -> 200
      [] k = "T2M_MIN" -> 100
      [] k = "RH2M" -> 650
      [] k = "PRECTOTCORR" -> 30
      [] k = "WS2M" -> 30
      [] k = "PS" -> 990
      [] k = "ALLSKY_SFC_UV_INDEX" -> 55
      [] k = "T2MDEW" -> 80

\* A daily answer over MaxDays + 1 days: every reading set ("full"), the
\* latest day a sentinel ("tail_missing"), every day a sentinel or null
\* ("all_missing"), no parameter at all ("empty").
DailyParameter(kind) ==
    LET days == 1..(MaxDays + 1)
        v(k, d) == CASE kind = "full" -> DailyBase(k) + 10 * d
                     [] kind = "tail_missing" ->
                            IF d = MaxDays + 1 THEN -9990 ELSE DailyBase(k) + 10 * d
                     [] kind = "all_missing" -> IF d % 2 = 0 THEN -9990 ELSE None
    IN  IF kind = "empty" THEN [k \in {} |-> <<>>]
        ELSE [k \in DailyParams |-> [key \in {DayKey(d) : d \in days} |-> v(k, key % 100)]]

DailyAnswers ==
    {[fail |-> "none", has_parameter |-> TRUE, parameter |-> DailyParameter(kind)] :
        kind \in {"full", "tail_missing", "all_missing", "empty"}}

BadDailyAnswers ==
    [fail : {"transport", "parse", "none"}, has_parameter : {FALSE},
     parameter : {DailyParameter("empty")}]

\* The hourly answers of the weather and compare requests.
WeatherHourlyAnswers ==
    {[fail |-> "none", has_parameter |-> TRUE,
      parameter |-> HourlyParameter("lists", nd, 3, tp, "ramp", op)] :
        nd \in {0, MaxDays}, tp \in {"ramp", "gaps", "missing"}, op \in {"ramp", "absent"}}
    \cup
    {[fail |-> "none", has_parameter |-> TRUE,
      parameter |-> HourlyParameter(sh, MaxDays, 24, "ramp", "ramp", "nulls")] :
        sh \in {"lists", "scalar_first"}}
    \cup BadHourlyAnswers

\* The 'hours' query argument: absent (24), not a number, or an integer.
HoursArgs ==
    {[kind |-> "absent", n |-> 24], [kind |-> "text", n |-> 0]}
    \cup [kind : {"int"}, n : {-2, 0, 1, 4, 30}]

Places == {"latlon", "found", "empty", "error"}

WeatherRequests ==
    [op : {"weather"}, place : {"latlon", "found"}, dresp : DailyAnswers,
     hresp : WeatherHourlyAnswers, hours : HoursArgs, unit : Units]
    \cup
    [op : {"weather"}, place : Places, dresp : DailyAnswers \cup BadDailyAnswers,
     hresp : {h \in WeatherHourlyAnswers : "T2M" \in DOMAIN h.parameter
                                           /\ Len(h.parameter["T2M"]) = 0},
     hours : {[kind |-> "absent", n |-> 24]}, unit : {"fahrenheit"}]

\* get_real_weather_data_by_point on its own.
CurrentRequests == [op : {"current"}, dresp : DailyAnswers, hresp : WeatherHourlyAnswers]

\* The daily answers of the forecast and historical requests: those of the
\* weather requests and one that holds no T2M_MIN series.
TrendAnswers ==
    DailyAnswers \cup BadDailyAnswers
    \cup {[fail |-> "none", has_parameter |-> TRUE,
           parameter |-> [k \in DailyParams \ {"T2M_MIN"} |-> DailyParameter("full")[k]]]}

\* The 'days' query argument: absent (the route's default), not a number,
\* or an integer.
DaysArgs(default) ==
    {[kind |-> "absent", n |-> default], [kind |-> "text", n |-> 0]}
    \cup [kind : {"int"}, n : {-1, 0, 2, 400}]

ForecastRequests ==
    [op : {"forecast"}, place : Places, dresp : TrendAnswers, days : DaysArgs(7),
     unit : Units]

HistoricalRequests ==
    [op : {"historical"}, place : Places, dresp : TrendAnswers, days : DaysArgs(30),
     unit : Units]

\* What happens to one location of a compare request: how it geocodes and
\* what the two NASA calls answer.
LocationCases ==
    {[geo |-> "latlon", dresp |-> d, hresp |-> h] :
        d \in {[fail |-> "none", has_parameter |-> TRUE, parameter |-> DailyParameter("full")]},
        h \in {[fail |-> "none", has_parameter |-> TRUE,
                 parameter |-> HourlyParameter("lists", 1, 3, "ramp", "ramp", "ramp")]}}
    \cup
    {[geo |-> "found", dresp |-> d, hresp |-> h] :
        d \in {[fail |-> "none", has_parameter |-> TRUE,
                 parameter |-> DailyParameter("tail_missing")]},
        h \in BadHourlyAnswers}
    \cup
    {[geo |-> g, dresp |-> d, hresp |-> h] :
        g \in {"found", "empty", "error"},
        d \in {[fail |-> "transport", has_parameter |-> FALSE,
                 parameter |-> DailyParameter("empty")]},
        h \in {[fail |-> "none", has_parameter |-> FALSE,
                 parameter |-> HourlyParameter("lists", 1, 3, "ramp", "ramp", "ramp")]}}

\* The lists of at most MaxLocations locations; location k is named k.
RECURSIVE LocationLists(_)
LocationLists(n) ==
    IF n = 0 THEN {<<>>}
    ELSE LET shorter == LocationLists(n - 1)
         IN  shorter \cup
             {Append(l, [name |-> n, geo |-> c.geo, dresp |-> c.dresp, hresp |-> c.hresp]) :
                 l \in {x \in shorter : Len(x) = n - 1}, c \in LocationCases}

CompareRequests == [op : {"compare"}, locations : LocationLists(MaxLocations), unit : Units]

\* Celsius readings (tenths) taken to the display and back.
MaxCelsius == 600
RoundTripRequests == [op : {"round_trip"}, c : (-MaxCelsius)..MaxCelsius]

\* Display temperatures (tenths of a degree Fahrenheit) of a response.
DisplayTemps == {None, -402, -400, 320, 680, 725}

FormatData ==
    {[has_current |-> hc,
      current |-> [temp |-> a, feelsLike |-> a, dewPoint |-> b, high |-> 725, low |-> b,
                   humidity |-> 600],
      has_hourly |-> hh,
      hourly |-> SubSeq(<<[time |-> "1 PM", temp |-> b, feelsLike |-> b, dewPoint |-> 320],
                          [time |-> "Now", temp |-> a, feelsLike |-> a, dewPoint |-> None]>>,
                        1, nh),
      has_forecast |-> hf,
      forecast |-> SubSeq(<<[high |-> a, low |-> b]>>, 1, nf)] :
        hc \in BOOLEAN, hh \in BOOLEAN, hf \in BOOLEAN, a \in DisplayTemps,
        b \in DisplayTemps, nh \in 0..2, nf \in 0..1}

FormatRequests ==
    [op : {"format"}, data : FormatData, unit : Units \cup {"celsius", "kelvin"}]

\* Time stamps of the forecast, as strings of character codes: <<d, h>> is
\* hour h of day d, a shorter string is a prefix (a date without an hour).
MaxSamples == 3
Timeline == [k \in 1..MaxSamples |-> <<1 + ((k - 1) \div 2), (k - 1) % 2>>]

\* An hourly array as long as the time array, repeating `base`.
Fill(base) == [k \in 1..MaxSamples |-> base[((k - 1) % Len(base)) + 1]]

TempArrays ==
    {Fill(b) : b \in {<<200, 205, 210>>, <<None>>, <<60, 80, 100>>, <<320, 340, 360>>,
                       <<59, 60, 61>>, <<100, 121, None>>}}
    \cup {<<>>}
PrecipArrays == {Fill(b) : b \in {<<0, 1, 0>>, <<2, 19, 0>>, <<0, 5, 20>>, <<None, 5, 1>>}}
PopArrays == {Fill(b) : b \in {<<None>>, <<10, 29, 0>>, <<30, None, 59>>, <<59, 60, 70>>}}
                \cup {<<>>}
WindArrays == {Fill(b) : b \in {<<0, 50, 240>>, <<241, 100, 482>>, <<482, 483, 600>>,
                                 <<50, None, 50>>}}
UvArrays == {Fill(b) : b \in {<<None>>, <<59, 60, 79>>, <<80, None, 10>>}} \cup {<<30>>}

Forecasts ==
    [fail : {"none"}, has_hourly : {TRUE}, has_time : {TRUE}, time : {Timeline},
     temperature_2m : TempArrays, precipitation : PrecipArrays,
     precipitation_probability : PopArrays, windspeed_10m : WindArrays,
     uv_index : UvArrays]

\* Answers that are not a forecast: the call fails, the body is not JSON,
\* the object has no 'hourly', the 'hourly' object has no 'time'.
BadForecasts ==
    [fail : {"transport", "parse", "none"}, has_hourly : BOOLEAN, has_time : BOOLEAN,
     time : {Timeline}, temperature_2m : {Fill(<<200>>)}, precipitation : {Fill(<<0>>)},
     precipitation_probability : {Fill(<<10>>)}, windspeed_10m : {Fill(<<50>>)},
     uv_index : {Fill(<<30>>)}]

\* <<start, end>> of the event window.
Windows ==
    {<<<<1>>, <<3>>>>, <<<<1, 0>>, <<1, 1>>>>, <<<<1, 1>>, <<1, 1>>>>, <<<<1, 1>>, <<2>>>>,
     <<<<2>>, <<1>>>>, <<<<3>>, <<4>>>>, <<<<1, 1, 5>>, <<2, 0>>>>}

EventTypes == {"General", "Wedding", "Hiking Trip"}

\* How the request names the place: lat and lon given, a location the
\* geocoder resolves, one it does not, or nothing at all.
EventRequests ==
    {[op |-> "event_advice", place |-> "latlon", resp |-> f, start |-> w[1], end |-> w[2],
      unit |-> u, event_type |-> e] :
        f \in Forecasts, w \in Windows, u \in {"fahrenheit"}, e \in EventTypes}
    \cup
    {[op |-> "event_advice", place |-> pl, resp |-> f, start |-> w[1], end |-> w[2],
      unit |-> u, event_type |-> "General"] :
        pl \in {"latlon", "location", "unresolved", "none"}, f \in BadForecasts,
        w \in Windows \cup {<<<<>>, <<2>>>>, <<<<1>>, <<>>>>}, u \in Units}

(***************************************************************************)
(* The state machine.                                                      *)
(***************************************************************************)
NoRet == [status |-> 0]

Init ==
    /\ pc = "start"
    /\ ret = NoRet
    /\ i = 0
    /\ acc = <<>>
    /\ \/ req \in MvRequests
       \/ req \in ClassifyRequests
       \/ req \in FlattenRequests
       \/ req \in EventRequests
       \/ req \in PowerHourlyRequests
       \/ req \in WeatherRequests
       \/ req \in CompareRequests
       \/ req \in FormatRequests
       \/ req \in RoundTripRequests
       \/ req \in ForecastRequests
       \/ req \in CurrentRequests
       \/ req \in HistoricalRequests

Finish(result) ==
    /\ pc' = "done"
    /\ ret' = result
    /\ UNCHANGED <<req, i, acc>>

Call_mv ==
    /\ pc = "start" /\ req.op = "mv"
    /\ Finish([status |-> 1, value |-> mv(req.v, req.default)])

Call_flatten_hourly_series ==
    /\ pc = "start" /\ req.op = "flatten"
    /\ Finish([status |-> 1, value |-> flatten_hourly_series(req.series_dict)])

Call_get_weather_condition ==
    /\ pc = "start" /\ req.op = "classify"
    /\ Finish([status |-> 1,
               value |-> get_weather_condition(req.temp_c, req.humidity,
                                               req.precip_amount, req.is_hourly)])

Call_get_power_hourly ==
    /\ pc = "start" /\ req.op = "power_hourly"
    /\ LET r == get_power_hourly(req.hresp, req.hours)
       IN  Finish([status |-> 1, raised |-> r.raised, value |-> r.rows])

\* format_weather_response applied to a response, then to its own result.
Call_format_weather_response ==
    /\ pc = "start" /\ req.op = "format"
    /\ pc' = "formatted"
    /\ acc' = format_weather_response(req.data, req.unit)
    /\ UNCHANGED <<req, ret, i>>

Call_format_weather_response_again ==
    /\ pc = "formatted" /\ req.op = "format"
    /\ pc' = "done"
    /\ ret' = [status |-> 1, value |-> format_weather_response(acc, req.unit)]
    /\ UNCHANGED <<req, acc, i>>

\* A Celsius reading shown in Fahrenheit (lines 157-158) and converted for a
\* Celsius client at the response boundary (lines 46-49).
Call_round_trip ==
    /\ pc = "start" /\ req.op = "round_trip"
    /\ Finish([status |-> 1, fahrenheit |-> to_display_f(req.c),
               value |-> convert_temp(to_display_f(req.c), TRUE)])

\* Flask's answer to an exception no handler catches.
Uncaught == [status |-> 500, error |-> "uncaught exception"]

\* /api/weather (lines 489-520).  int() of a 'hours' that is not a number
\* raises ValueError at line 496, outside any try.
api_weather ==
    /\ pc = "start" /\ req.op = "weather"
    /\ LET hours == req.hours.n
           place == get_coordinates([name |-> 1, geo |-> req.place])
           sliced(hourly) == IF hourly # <<>> /\ hours < Len(hourly)
                             THEN SliceFrom(hourly, -hours)
                             ELSE hourly
           answer(w) ==
               IF ~w.ok
               THEN [status |-> 400, error |-> "Unable to fetch weather data"]
               ELSE [status |-> 200, error |-> "", location |-> place.display,
                     body |-> format_weather_response(
                                  [has_current |-> TRUE, current |-> w.current,
                                   has_hourly |-> TRUE, hourly |-> sliced(w.hourly),
                                   has_forecast |-> FALSE, forecast |-> <<>>],
                                  req.unit)]
       IN  IF req.hours.kind = "text" THEN Finish(Uncaught)
           ELSE Finish(answer(get_real_weather_data_by_point(req.dresp, req.hresp)))

Call_get_real_weather_data_by_point ==
    /\ pc = "start" /\ req.op = "current"
    /\ LET answer(w) == [status |-> 1, ok |-> w.ok, current |-> w.current,
                         hourly |-> w.hourly]
       IN  Finish(answer(get_real_weather_data_by_point(req.dresp, req.hresp)))

\* /api/forecast (lines 522-549).  int() of a 'days' that is not a number
\* raises ValueError at line 529, outside any try.
api_forecast ==
    /\ pc = "start" /\ req.op = "forecast"
    /\ LET days == Min(req.days.n, 14)
           place == get_coordinates([name |-> 1, geo |-> req.place])
           answer(trend) ==
               IF ~trend.ok
               THEN [status |-> 400, error |-> "Unable to fetch trend data"]
               ELSE [status |-> 200, error |-> "", location |-> place.display,
                     body |-> format_weather_response(
                                  [has_current |-> FALSE, current |-> [temp |-> None],
                                   has_hourly |-> FALSE, hourly |-> <<>>,
                                   has_forecast |-> TRUE, forecast |-> trend.rows],
                                  req.unit)]
       IN  IF req.days.kind = "text" THEN Finish(Uncaught)
           ELSE Finish(answer(get_real_forecast_trend(req.dresp, days)))

\* /api/historical (lines 551-612).  int() of line 558 is outside the try
\* of line 569; the number of days only sets the dates asked for.
api_historical ==
    /\ pc = "start" /\ req.op = "historical"
    /\ LET place == get_coordinates([name |-> 1, geo |-> req.place])
           is_c == is_celsius(req.unit)
           answer(p, days) ==
               [status |-> 200, error |-> "", location |-> place.display,
                historical |-> [n \in 1..Len(days) |-> HistoricalRow(p, days[n], is_c)],
                unit |-> IF is_c THEN "C" ELSE "F"]
       IN  IF req.days.kind = "text" THEN Finish(Uncaught)
           ELSE IF req.dresp.fail # "none" \/ ~req.dresp.has_parameter
           THEN Finish([status |-> 400, error |-> "Unable to fetch historical data"])
           ELSE Finish(answer(req.dresp.parameter, SortedDays(req.dresp.parameter, "T2M")))

\* /api/compare (lines 637-663): the loop of line 646, one location a step.
api_compare_begin ==
    /\ pc = "start" /\ req.op = "compare"
    /\ pc' = "compare_loop"
    /\ i' = 1
    /\ acc' = <<>>
    /\ UNCHANGED <<req, ret>>

api_compare_location_NoSkip ==
    /\ pc = "compare_loop" /\ i <= Len(req.locations)
    /\ LET loc == req.locations[i]
           place == get_coordinates(loc)
           entry(w) == [location |-> place.display,
                        weather |-> ConvertKeys(w.current,
                                        {"temp", "feelsLike", "dewPoint", "high", "low"},
                                        is_celsius(req.unit))]
           step(w) == IF ~place.resolved THEN acc ELSE Append(acc, entry(w))
       IN  acc' = step(get_real_weather_data_by_point(loc.dresp, loc.hresp))
    /\ i' = i + 1
    /\ UNCHANGED <<req, pc, ret>>

api_compare_location ==
    /\ pc = "compare_loop" /\ i <= Len(req.locations)
    /\ LET loc == req.locations[i]
           place == get_coordinates(loc)
           entry(w) == [location |-> place.display,
                        weather |-> ConvertKeys(w.current,
                                        {"temp", "feelsLike", "dewPoint", "high", "low"},
                                        is_celsius(req.unit))]
           step(w) == IF ~place.resolved \/ ~w.ok THEN acc ELSE Append(acc, entry(w))
       IN  acc' = step(get_real_weather_data_by_point(loc.dresp, loc.hresp))
    /\ i' = i + 1
    /\ UNCHANGED <<req, pc, ret>>

api_compare_return ==
    /\ pc = "compare_loop" /\ i > Len(req.locations)
    /\ pc' = "done"
    /\ ret' = [status |-> 200, error |-> "", comparison |-> acc,
               unit |-> IF is_celsius(req.unit) THEN "C" ELSE "F"]
    /\ UNCHANGED <<req, i, acc>>

\* /api/event-advice (lines 614-635).
api_event_advice ==
    /\ pc = "start" /\ req.op = "event_advice"
    /\ IF req.place \in {"unresolved", "none"} \/ req.start = <<>> \/ req.end = <<>>
       THEN Finish([status |-> 400, error |-> "lat, lon, start, end are required"])
       ELSE \E advice \in get_event_advice(req.resp, req.start, req.end, req.unit,
                                            req.event_type) :
                Finish(advice)

Next ==
    \/ Call_mv
    \/ Call_flatten_hourly_series
    \/ Call_get_weather_condition
    \/ api_event_advice
    \/ Call_get_power_hourly
    \/ Call_format_weather_response
    \/ Call_format_weather_response_again
    \/ api_weather
    \/ api_compare_begin
    \/ api_compare_location
    \/ api_compare_return
    \/ Call_round_trip
    \/ api_forecast
    \/ api_historical
    \/ Call_get_real_weather_data_by_point

Spec == Init /\ [][Next]_vars

(***************************************************************************)
(* Properties.                                                             *)
(***************************************************************************)
Returned(op) == pc = "done" /\ req.op = op

\* C1: mv(value, fallback) returns fallback when value is one of the
\* sentinels -999, -9999, -99 or null, and returns value unchanged for
\* every other value, 0 and negative non-sentinel numbers included.
C1_mv_default_iff_sentinel ==
    Returned("mv") =>
        IF req.v = None \/ req.v \in {-9990, -99990, -990}
        THEN ret.value = req.default
        ELSE ret.value = req.v

C1_witness ==
    /\ Returned("mv") /\ req.v = None /\ req.default = 200 /\ ret.value = 200

\* C2: flattening a mapping whose values are all 24-element lists gives
\* exactly 24 x (number of day keys) entries, <dayKey><hh> holding element
\* hh of that day's list; a mapping of plain scalars comes back unchanged;
\* the empty mapping gives the empty mapping.
C2_flatten_shapes ==
    Returned("flatten") =>
        LET sd == req.series_dict
            out == ret.value
            n == Len(sd)
        IN  /\ n = 0 => DOMAIN out = {}
            /\ (n > 0 /\ \A k \in 1..n : sd[k].isList /\ Len(sd[k].vals) = 24) =>
                  /\ Cardinality(DOMAIN out) = 24 * n
                  /\ \A k \in 1..n : \A hh \in 0..23 :
                        /\ sd[k].key * 100 + hh \in DOMAIN out
                        /\ out[sd[k].key * 100 + hh] = Scalar(sd[k].vals[hh + 1])
            /\ (\A k \in 1..n : ~sd[k].isList) =>
                  /\ DOMAIN out = {sd[k].key : k \in 1..n}
                  /\ \A k \in 1..n : out[sd[k].key] = Scalar(sd[k].vals[1])

C2_witness ==
    /\ Returned("flatten")
    /\ Len(req.series_dict) = 2
    /\ \A k \in 1..2 : req.series_dict[k].isList /\ Len(req.series_dict[k].vals) = 24
    /\ Cardinality(DOMAIN ret.value) = 48
    /\ ret.value[2024010223] = Scalar(req.series_dict[2].vals[24])

\* C3: the classifier's table.  Rainy at precip >= 2 (hourly) or >= 10
\* (daily); else Light Rain at >= 0.2 (hourly) or >= 1 (daily); else Cloudy
\* above 80 % humidity, Partly Cloudy above 60 %, else Clear; one icon per
\* label; the same result for every temperature.
C3_label ==
    LET rainy == IF req.is_hourly THEN 20 ELSE 100
        light == IF req.is_hourly THEN 2 ELSE 10
    IN  IF req.precip_amount >= rainy THEN "Rainy"
        ELSE IF req.precip_amount >= light THEN "Light Rain"
        ELSE IF req.humidity > 800 THEN "Cloudy"
        ELSE IF req.humidity > 600 THEN "Partly Cloudy"
        ELSE "Clear"

C3_icon(label) ==
    CASE label = "Rainy" -> "cloud_with_rain"
      [] label = "Light Rain" -> "sun_behind_rain_cloud"
      [] label = "Cloudy" -> "cloud"
      [] label = "Partly Cloudy" -> "sun_behind_cloud"
      [] label = "Clear" -> "sun"

C3_classifier_table ==
    Returned("classify") =>
        /\ ret.value = <<C3_label, C3_icon(C3_label)>>
        /\ \A t \in {-400, -50, 0, 200, 350, 500} :
              get_weather_condition(t, req.humidity, req.precip_amount, req.is_hourly)
                  = ret.value

C3_witness ==
    /\ Returned("classify") /\ req.is_hourly /\ req.precip_amount = 2
    /\ req.humidity = 1000 /\ ret.value = <<"Light Rain", "sun_behind_rain_cloud">>

(***************************************************************************)
(* Event advice: the claims' own reading of the window and its aggregates, *)
(* written from the request, not from the handler's operators.             *)
(***************************************************************************)
\* get_event_advice was called: the route had coordinates and both ends.
AdviceCalled ==
    /\ Returned("event_advice")
    /\ req.place \in {"latlon", "location"}
    /\ req.start # <<>> /\ req.end # <<>>

\* The forecast arrived as a JSON object.
Fetched == req.resp.fail = "none"

ClaimTimes ==
    IF req.resp.has_hourly /\ req.resp.has_time THEN req.resp.time ELSE <<>>

\* Positions of the samples with start <= t <= end.
ClaimSelected ==
    {k \in 1..Len(ClaimTimes) :
        StrLeq(req.start, ClaimTimes[k]) /\ StrLeq(ClaimTimes[k], req.end)}

\* The set values of an hourly array at the selected positions.
ClaimSet(arr) == {arr[k] : k \in {j \in ClaimSelected : j <= Len(arr)}} \ {None}

ClaimMaxPoP ==
    LET S == ClaimSet(req.resp.precipitation_probability)
    IN  IF S = {} THEN None ELSE MaxOf(S)

\* A sample past the end of the precipitation or wind array counts as 0.
ClaimMaxPrecip ==
    MaxOf(ClaimSet(req.resp.precipitation) \cup {0})

ClaimMaxWind ==
    MaxOf({round(w * 621371, 1000000) : w \in ClaimSet(req.resp.windspeed_10m)} \cup {0})

ClaimMaxUV == MaxOf(ClaimSet(req.resp.uv_index) \cup {0})

ClaimTemps == {k \in ClaimSelected : k <= Len(req.resp.temperature_2m)
                                     /\ req.resp.temperature_2m[k] # None}

RECURSIVE ClaimTempTotal(_)
ClaimTempTotal(K) ==
    IF K = {} THEN 0
    ELSE LET k == CHOOSE k \in K : TRUE
         IN  req.resp.temperature_2m[k] + ClaimTempTotal(K \ {k})

ClaimBand ==
    IF req.event_type \in {"Wedding"} THEN <<120, 300>>
    ELSE IF req.event_type \in {"Hiking Trip"} THEN <<80, 320>>
    ELSE <<100, 300>>

ClaimRisks ==
    LET pop == ClaimMaxPoP
        pr == ClaimMaxPrecip
        n == Cardinality(ClaimTemps)
        tot == ClaimTempTotal(ClaimTemps)
        lo == ClaimBand[1]
        hi == ClaimBand[2]
    IN  [precip |-> IF (pop # None /\ pop >= 60) \/ pr >= 20 THEN "high"
                    ELSE IF (pop # None /\ pop >= 30 /\ pop < 60) \/ (pr >= 2 /\ pr < 20)
                         THEN "moderate"
                    ELSE "low",
         wind |-> IF ClaimMaxWind >= 300 THEN "high"
                  ELSE IF ClaimMaxWind >= 150 THEN "moderate" ELSE "low",
         temperature |-> IF n = 0 THEN "low"
                         ELSE IF tot < (lo - 20) * n \/ tot > (hi + 20) * n THEN "high"
                         ELSE IF tot < lo * n \/ tot > hi * n THEN "moderate"
                         ELSE "low",
         uv |-> IF ClaimMaxUV >= 80 THEN "high"
                ELSE IF ClaimMaxUV >= 60 THEN "moderate" ELSE "low"]

\* Every selected sample has its precipitation and wind speed set.
ClaimSamplesSet ==
    \A k \in ClaimSelected :
        /\ k <= Len(req.resp.precipitation) => req.resp.precipitation[k] # None
        /\ k <= Len(req.resp.windspeed_10m) => req.resp.windspeed_10m[k] # None

\* C4: for every non-empty event window get_event_advice returns the four
\* risk levels that the bands give for the window's aggregates.
C4_risk_bands_every_window ==
    (AdviceCalled /\ Fetched /\ ClaimSelected # {}) =>
        (ret.error = "" /\ ret.risks = ClaimRisks)

\* The same, for the windows whose precipitation and wind samples are all
\* set: there the handler does return the four risk levels of the bands.
C4_risk_bands_when_samples_set ==
    (AdviceCalled /\ Fetched /\ ClaimSelected # {} /\ ClaimSamplesSet) =>
        (ret.error = "" /\ ret.risks = ClaimRisks)

C4_null_sample_fails ==
    (AdviceCalled /\ Fetched /\ ClaimSelected # {} /\ ~ClaimSamplesSet) =>
        ret = AdviceFailed

\* C5: in every successful result favorable is true exactly when the
\* precipitation risk is low, the wind risk is low and the temperature
\* risk is not high, whatever the UV risk; summary is 'Favorable' exactly
\* when favorable is true.
C5_favorable_rule ==
    (Returned("event_advice") /\ ret.error = "") =>
        /\ ret.favorable = (/\ ret.risks.precip = "low"
                            /\ ret.risks.wind = "low"
                            /\ ret.risks.temperature # "high")
        /\ (ret.summary = "Favorable") = ret.favorable
        /\ ret.summary \in {"Favorable", "Not favorable"}

C5_witness ==
    /\ Returned("event_advice") /\ ret.error = ""
    /\ ret.favorable /\ ret.risks.uv = "high" /\ ret.risks.temperature = "moderate"
    /\ ret.summary = "Favorable"

\* C6: the samples selected are exactly those with start <= t <= end, in
\* order; when none is selected (start > end included) the result is the
\* 'No forecast data' one with status 200 and no risk or metric field.
C6_window_selection ==
    (AdviceCalled /\ Fetched) =>
        /\ ret.error = "" =>
              /\ Len(ret.hourly) = Cardinality(ClaimSelected)
              /\ \A n \in 1..Len(ret.hourly) :
                    \E k \in ClaimSelected :
                        /\ ret.hourly[n].time = ClaimTimes[k]
                        /\ Cardinality({j \in ClaimSelected : j <= k}) = n
        /\ ClaimSelected = {} =>
              /\ ret.status = 200
              /\ ret.error = "No forecast data for the selected window"
              /\ DOMAIN ret = {"status", "error"}
        /\ ClaimSelected # {} => ret.error # "No forecast data for the selected window"

C6_witness ==
    /\ AdviceCalled /\ Fetched /\ req.resp.has_time /\ req.resp.has_hourly
    /\ req.start = <<2>> /\ req.end = <<1>>
    /\ ret = NoData

\* C7 as claimed: every upstream failure of the forecast provider, a
\* response without the 'hourly' object or the 'time' array included,
\* yields the 'Failed to compute event advice' result with status 500.
C7_every_upstream_failure_is_500 ==
    (AdviceCalled /\ (~Fetched \/ ~req.resp.has_hourly \/ ~req.resp.has_time)) =>
        ret = [status |-> 500, error |-> "Failed to compute event advice"]

\* C7 amended: a transport error, a timeout or an unparsable body yields
\* the status-500 result; a JSON object without 'hourly' or without 'time'
\* yields the 'No forecast data' result with status 200.
C7_fetch_failure_500_missing_keys_200 ==
    AdviceCalled =>
        /\ ~Fetched => ret = [status |-> 500, error |-> "Failed to compute event advice"]
        /\ (Fetched /\ (~req.resp.has_hourly \/ ~req.resp.has_time)) =>
              ret = [status |-> 200, error |-> "No forecast data for the selected window"]

C7_witness ==
    /\ AdviceCalled /\ Fetched /\ ~req.resp.has_hourly
    /\ ret.status = 200 /\ ret.error = "No forecast data for the selected window"

\* A location of a compare request resolves and both NASA calls answer.
ClaimSucceeded(loc) ==
    /\ loc.geo \in {"latlon", "found"}
    /\ loc.dresp.fail = "none" /\ loc.dresp.has_parameter
    /\ ~get_power_hourly(loc.hresp, 24).raised

ClaimNames(locations) == [n \in 1..Len(locations) |-> locations[n].name]
ClaimEntryNames(comparison) == [n \in 1..Len(comparison) |-> comparison[n].location.text]

\* C8: /api/compare takes the locations one at a time in input order; for
\* every list of locations and every pattern of failures the request ends
\* with status 200 and the comparison holds exactly one entry for each
\* location whose geocoding and weather fetch both succeeded, in input
\* order; a failed location is skipped and the later ones are still
\* processed.
C8_compare_skips_failures ==
    /\ pc = "compare_loop" =>
          /\ i \in 1..(Len(req.locations) + 1)
          /\ ClaimEntryNames(acc) =
                ClaimNames(SelectSeq(SubSeq(req.locations, 1, i - 1), ClaimSucceeded))
    /\ Returned("compare") =>
          /\ ret.status = 200 /\ ret.error = ""
          /\ ClaimEntryNames(ret.comparison) =
                ClaimNames(SelectSeq(req.locations, ClaimSucceeded))

C8_witness ==
    /\ Returned("compare") /\ Len(req.locations) = 3
    /\ req.locations[1].geo = "error"
    /\ req.locations[2].dresp.fail = "transport" /\ req.locations[2].geo = "found"
    /\ ClaimSucceeded(req.locations[3])
    /\ ret.status = 200 /\ ClaimEntryNames(ret.comparison) = <<3>>

\* C9: whenever the list get_power_hourly returns is not empty its last
\* record has time 'Now', for every hourly answer and every hours value;
\* so has the hourly list of the /api/weather response, after the route's
\* own slicing.
C9_last_record_is_now ==
    /\ (Returned("power_hourly") /\ ~ret.raised /\ ret.value # <<>>) =>
          ret.value[Len(ret.value)].time = "Now"
    /\ (Returned("weather") /\ ret.status = 200 /\ ret.body.hourly # <<>>) =>
          ret.body.hourly[Len(ret.body.hourly)].time = "Now"

C9_witness ==
    /\ Returned("weather") /\ ret.status = 200
    /\ req.hours = [kind |-> "int", n |-> 4]
    /\ Len(ret.body.hourly) = 4
    /\ ret.body.hourly[3].time = "1 AM"
    /\ ret.body.hourly[4].time = "Now"

\* The temperature fields a response holds, as <<object, index, key>>.
ClaimTempFields(r) ==
    (IF r.has_current
     THEN {<<"current", 0, k>> : k \in {"temp", "feelsLike", "dewPoint", "high", "low"}}
     ELSE {})
    \cup (IF r.has_hourly
          THEN {<<"hourly", n, k>> : n \in 1..Len(r.hourly),
                                    k \in {"temp", "feelsLike", "dewPoint"}}
          ELSE {})
    \cup (IF r.has_forecast
          THEN {<<"forecast", n, k>> : n \in 1..Len(r.forecast), k \in {"high", "low"}}
          ELSE {})

ClaimFieldAt(r, f) ==
    CASE f[1] = "current" -> r.current[f[3]]
      [] f[1] = "hourly" -> r.hourly[f[2]][f[3]]
      [] f[1] = "forecast" -> r.forecast[f[2]][f[3]]

\* Equal within rounding: both null, or numbers at most 0.1 apart.
ClaimClose(a, b) ==
    IF a = None \/ b = None THEN a = b
    ELSE a - b \in -1..1

\* C10 as claimed: for each unit in {celsius, fahrenheit}, applying
\* format_weather_response twice with the same unit gives the same
\* temperature fields as applying it once, within rounding.
C10_idempotent_for_both_units ==
    (Returned("format") /\ req.unit \in {"celsius", "fahrenheit"}) =>
        \A f \in ClaimTempFields(acc) :
            ClaimClose(ClaimFieldAt(ret.value, f), ClaimFieldAt(acc, f))

\* C10 amended: for fahrenheit (any unit that is not celsius in some case
\* of letters) a second application gives the very same temperature fields
\* as the first; for celsius it converts every field that is not null once
\* more as if it were Fahrenheit, (x - 32) * 5 / 9 to one decimal, so that a
\* field keeps its value only when it is null, -40.1, -40.0 or -39.9.
C10_idempotent_for_fahrenheit_only ==
    Returned("format") =>
        \A f \in ClaimTempFields(acc) :
            LET once == ClaimFieldAt(acc, f)
                twice == ClaimFieldAt(ret.value, f)
            IN  IF req.unit \in {"celsius", "Celsius"}
                THEN /\ once = None => twice = None
                     /\ once # None =>
                           /\ twice # None
                           /\ 9 * twice - 5 * (once - 320) \in -4..4
                     /\ (twice = once) = (once \in {None, -401, -400, -399})
                ELSE twice = once

C10_witness ==
    /\ Returned("format") /\ req.unit = "celsius"
    /\ req.data.has_current /\ req.data.current.temp = 680 /\ req.data.current.low = -400
    /\ acc.current.temp = 200 /\ ret.value.current.temp = -67
    /\ acc.current.low = -400 /\ ret.value.current.low = -400
    /\ req.data.has_hourly /\ Len(req.data.hourly) = 2
    /\ req.data.hourly[2].dewPoint = None /\ ret.value.hourly[2].dewPoint = None

\* C11: a Celsius value c shown as F = round(c * 9 / 5 + 32) and taken
\* back by convert_temp(F, TRUE) comes out within 1 degree Celsius of c,
\* for every c of the range.
C11_round_trip_within_one_degree ==
    Returned("round_trip") =>
        /\ ret.value # None
        /\ ret.value - req.c \in -10..10

C11_witness ==
    /\ Returned("round_trip") /\ req.c = 25
    /\ ret.fahrenheit = 360 /\ ret.value = 22

ClaimRoutes == {"weather", "forecast", "historical", "event_advice", "compare"}

\* C12: no exception passes a route boundary.  For each of /api/weather,
\* /api/forecast, /api/historical, /api/event-advice and /api/compare, for
\* every query (a non-numeric hours or days included) and every upstream
\* behaviour, the handler returns a JSON response with status 200, 400 or
\* 500 and never ends in an uncaught exception.
C12_no_uncaught_exception ==
    (pc = "done" /\ req.op \in ClaimRoutes) =>
        /\ ret.status \in {200, 400, 500}
        /\ ret # Uncaught

\* What does hold: only a non-numeric hours or days argument ends a route
\* in an uncaught exception.
C12_uncaught_only_for_text_argument ==
    (pc = "done" /\ req.op \in ClaimRoutes) =>
        /\ ret.status \in {200, 400, 500}
        /\ (ret = Uncaught) =
              \/ req.op = "weather" /\ req.hours.kind = "text"
              \/ req.op \in {"forecast", "historical"} /\ req.days.kind = "text"

\* The days of a daily parameter whose reading is neither a sentinel nor
\* null, and the reading of the most recent of them.
ClaimValidDays(k) ==
    IF k \in DOMAIN req.dresp.parameter
    THEN {d \in DOMAIN req.dresp.parameter[k] :
             req.dresp.parameter[k][d] \notin {-9990, -99990, -990, None}}
    ELSE {}

ClaimHasDaily(k) == ClaimValidDays(k) # {}

ClaimDaily(k) ==
    LET last == CHOOSE d \in ClaimValidDays(k) : \A e \in ClaimValidDays(k) : e <= d
    IN  req.dresp.parameter[k][last]

ClaimFahrenheit(c) == 10 * round(c * 9 + 1600, 50)

ClaimHourlyOverrides ==
    LET last == ret.hourly[Len(ret.hourly)]
    IN  /\ ret.current.precipitation = last.precipitation
        /\ ret.current.uvIndex = last.uvIndex
        /\ ret.current.pressure = last.pressure
        /\ ret.current.dewPoint = last.dewPoint

\* Without an hourly row: UV index, pressure and dew point from the most
\* recent valid daily reading, or the code's default when no day is valid.
ClaimDailyFallbacks ==
    /\ ret.current.uvIndex =
          (IF ClaimHasDaily("ALLSKY_SFC_UV_INDEX")
           THEN Max(0, ClaimDaily("ALLSKY_SFC_UV_INDEX")) ELSE 0)
    /\ ret.current.pressure =
          (IF ClaimHasDaily("PS") THEN round(ClaimDaily("PS") * 2953, 1000) ELSE None)
    /\ ret.current.dewPoint =
          (IF ClaimHasDaily("T2MDEW") THEN ClaimFahrenheit(ClaimDaily("T2MDEW"))
           ELSE ClaimFahrenheit((IF ClaimHasDaily("T2M") THEN ClaimDaily("T2M") ELSE 200)
                                - 20))

\* C13 as claimed: the current precipitation, uvIndex, pressure and
\* dewPoint are those of the last hourly record when there is one; with no
\* hourly record each is derived from the most recent valid daily reading
\* of its parameter, the precipitation from the daily precipitation.
C13_daily_fallback_for_all_four ==
    (Returned("current") /\ ret.ok) =>
        IF ret.hourly # <<>> THEN ClaimHourlyOverrides
        ELSE /\ ClaimDailyFallbacks
             /\ ClaimHasDaily("PRECTOTCORR") =>
                   ret.current.precipitation = Max(0, ClaimDaily("PRECTOTCORR"))

\* C13 amended: as claimed for uvIndex, pressure and dewPoint; with no
\* hourly record the current precipitation is 0.0, and the most recent
\* valid daily precipitation is reported as precipLast24h only.
C13_precipitation_falls_back_to_zero ==
    (Returned("current") /\ ret.ok) =>
        /\ IF ret.hourly # <<>> THEN ClaimHourlyOverrides
           ELSE /\ ClaimDailyFallbacks
                /\ ret.current.precipitation = 0
        /\ ret.current.precipLast24h =
              (IF ClaimHasDaily("PRECTOTCORR") THEN Max(0, ClaimDaily("PRECTOTCORR"))
               ELSE 0)

C13_witness ==
    /\ Returned("current") /\ ret.ok /\ ret.hourly = <<>>
    /\ ClaimValidDays("PRECTOTCORR") = {DayKey(d) : d \in 1..MaxDays}
    /\ ret.current.precipitation = 0
    /\ ret.current.precipLast24h = ClaimDaily("PRECTOTCORR")
    /\ ret.current.precipLast24h > 0
    /\ ret.current.uvIndex = ClaimDaily("ALLSKY_SFC_UV_INDEX")

\* The hours of the payload whose temperature reading is neither a
\* sentinel nor null, in ascending key order, and their readings.
ClaimT2M == flatten_hourly_series(ParamSeries(req.hresp.parameter, "T2M"))
ClaimPrecip == flatten_hourly_series(ParamSeries(req.hresp.parameter, "PRECTOTCORR"))
ClaimReading(key) == Get(ClaimT2M, key).vals[1]
ClaimValidHours ==
    SelectSeq(SortKeys(DOMAIN ClaimT2M \cup DOMAIN ClaimPrecip),
              LAMBDA key : ClaimReading(key) \notin {-9990, -99990, -990, None})

\* The result is the last n of the valid hours, in ascending order.
ClaimLastValid(n) ==
    /\ Len(ret.value) = n
    /\ \A j \in 1..n :
          ret.value[j].temp =
              ClaimFahrenheit(ClaimReading(ClaimValidHours[Len(ClaimValidHours) - n + j]))

ClaimHourlyReturned ==
    /\ Returned("power_hourly") /\ ~ret.raised
    /\ req.hresp.fail = "none" /\ req.hresp.has_parameter

\* C14 as claimed: for every hour count N >= 0 and every payload,
\* get_power_hourly returns at most N records, the last min(N, V) of the V
\* hours whose temperature is not missing, in ascending time-key order.
C14_last_n_valid_hours ==
    (ClaimHourlyReturned /\ req.hours >= 0) =>
        /\ Len(ret.value) <= req.hours
        /\ ClaimLastValid(Min(req.hours, Len(ClaimValidHours)))

\* What does hold: the claim for N >= 1; for N = 0 every valid hour is
\* returned.
C14_all_valid_hours_when_zero ==
    ClaimHourlyReturned =>
        /\ req.hours >= 1 => ClaimLastValid(Min(req.hours, Len(ClaimValidHours)))
        /\ req.hours = 0 => ClaimLastValid(Len(ClaimValidHours))

====
